---- MODULE Spec2Model ----
(***************************************************************************)
(* A model of the CHIP-8 interpreter of src/CHIP8.cpp: the Chip8 struct,   *)
(* initVM/loadROM, and the fetch/decode loop of main with the dispatch     *)
(* table INSTRUCTION_LIST.                                                 *)
(*                                                                         *)
(* main never constructs a Chip8 (it declares "Chip8* vm;" and passes it   *)
(* on), and initVM assigns PC only, so every other field holds whatever    *)
(* the storage held: those fields start as a choice from small sets of     *)
(* possible contents.                                                      *)
(***************************************************************************)
EXTENDS Integers, Sequences, FiniteSets

VARIABLES
    ram,      \* uint8_t ram[4096]
    V,        \* uint8_t V[16]
    I,        \* uint16_t I
    PC,       \* uint16_t PC
    instr,    \* char16_t instr
    SP,       \* uint8_t SP
    stack,    \* uint16_t stack[16]
    display,  \* bool display[64][32], as the set of the pixels <<i, j>> that are on
    dTimer,   \* uint8_t dTimer
    sTimer,   \* uint8_t sTimer
    pos,      \* where main is: "start", "fetch", "decode"
    rom,      \* the bytes of the ROM file given to loadROM
    romOpen,  \* whether loadROM could open the file
    fault,    \* the error surfaced to the host ("none": the source has no error path)
    cycles,   \* history: the number of cycles begun
    PC0,      \* history: PC at the start of the current (or last) cycle
    maxIdx,   \* history: the largest index used so far to access ram
    pending,  \* history: PC0 and SP of the last CALL dispatched with no CALL/RET since
    atStart,  \* history: V, I and display at the start of the current (or last) cycle
    atPrev    \* history: the same at the start of the cycle before, and the word it dispatched

vars == <<ram, V, I, PC, instr, SP, stack, display, dTimer, sTimer, pos, rom,
          romOpen, fault, cycles, PC0, maxIdx, pending, atStart, atPrev>>

----------------------------------------------------------------------------
(* Sizes and constants of the source *)

RamSize == 4096
NumRegs == 16
StackSize == 16
Width == 64
Height == 32
RomBase == 512
FontLen == 80
Word8 == 256
Word16 == 65536

(* Bounds of the model *)
MaxCycles == 18
Excess == 2

NoCall == [p |-> -1, s |-> -1]

Max(a, b) == IF a >= b THEN a ELSE b

----------------------------------------------------------------------------
(* Chip8::fontset: a member of its own, which no code copies into ram *)
fontset ==
    <<240, 144, 144, 144, 240,   32,  96,  32,  32, 112,
      240,  16, 240, 128, 240,  240,  16, 240,  16, 240,
      144, 144, 240,  16,  16,  240, 128, 240,  16, 240,
      240, 128, 240, 144, 240,  240,  16,  32,  64,  64,
      240, 144, 240, 144, 240,  240, 144, 240,  16, 240,
      240, 144, 240, 144, 144,  224, 144, 224, 144, 224,
      240, 128, 128, 128, 240,  224, 144, 144, 144, 224,
      240, 128, 240, 128, 240,  240, 128, 240, 128, 128>>

----------------------------------------------------------------------------
(* What the uninitialized fields may hold *)
JunkRam == {0, 238}
JunkReg == {0, 5}
JunkSP == {0, 16, 200}
JunkTimer == {0, 7}
JunkI == {0, 564}
JunkDisplay == {{}, {<<0, 0>>, <<Width - 1, Height - 1>>}}

(* ROM files *)
Repeat(pair, k) == [i \in 1..(2 * k) |-> pair[2 - (i % 2)]]

ImgScenario == <<0, 224, 96, 5, 162, 52>>
ImgCls == <<0, 0, 0, 224, 0, 0>>
ImgSkip == <<0, 0, 48, 0, 48, 5, 64, 1, 80, 0, 144, 16>>
ImgUnknown == <<240, 255, 240, 255, 128, 8>>
ImgCallRet == <<0, 0, 34, 8, 0, 0, 0, 238>>
ImgRet == <<0, 238, 0, 238>>
ImgCalls == Repeat(<<34, 0>>, MaxCycles)
ImgOps == <<0, 0, 240, 21, 128, 20, 128, 21, 208, 17, 208, 17, 241, 85, 241, 101,
           18, 0, 240, 30, 240, 10, 224, 161, 0, 224>>
ImgTooLarge == [i \in 1..(RamSize - RomBase + Excess) |-> (i % 2) * 17]

Images == {ImgScenario, ImgCls, ImgSkip, ImgUnknown, ImgCallRet, ImgRet,
           ImgCalls, ImgOps, ImgTooLarge}

----------------------------------------------------------------------------
(* loadROM reads the file into a vector<char> and stores each char into the
   uint8_t ram: a byte of the file passes through char and back *)
ToChar(b) == IF b > 127 THEN b - Word8 ELSE b
ToU8(c) == c % Word8

(* ram after the copy loop of loadROM, for the indices that lie inside ram *)
LoadedRam(r, img) ==
    [a \in 0..(RamSize - 1) |->
        IF a >= RomBase /\ a - RomBase < Len(img)
        THEN ToU8(ToChar(img[a - RomBase + 1]))
        ELSE r[a]]

(* The copy loop has no bound but the file size: ram[i + 0x200] with
   i + 0x200 >= 4096 is a store past the array.  V follows ram in the struct,
   so such a store either lands in V[i + 0x200 - 4096] or has no effect on
   the fields of the struct. *)
SpilledRegs(v, img) ==
    [k \in 0..(NumRegs - 1) |->
        IF RamSize + k - RomBase < Len(img)
        THEN ToU8(ToChar(img[RamSize + k - RomBase + 1]))
        ELSE v[k]]

LoadTop(img) == IF Len(img) = 0 THEN 0 ELSE RomBase + Len(img) - 1

(* reset with its outer loop begun at i = 1: column 0 keeps a pixel *)
resetFromOne == {<<0, 0>>}

(* reset(display): every pixel off *)
reset == {}

----------------------------------------------------------------------------
(* The fields of decode: masks without shifts *)
FieldU(w) == w - (w % 4096)
FieldX(w) == (w % 4096) - (w % 256)
FieldY(w) == (w % 256) - (w % 16)
FieldN(w) == w % 16
FieldKK(w) == w % 256
FieldNNN(w) == w % 4096

RECURSIVE Bits(_, _, _, _)
Bits(f, a, b, k) ==
    IF k = 0 THEN 0
    ELSE LET p == a % 2
             q == b % 2
             r == CASE f = "or"  -> IF p + q > 0 THEN 1 ELSE 0
                    [] f = "and" -> p * q
                    [] f = "xor" -> (p + q) % 2
         IN r + 2 * Bits(f, a \div 2, b \div 2, k - 1)

(* V[x] with the unshifted x: inside the register file only when x < 16;
   a read past it yields some byte, a store past it leaves V as it was *)
RegRead(v, x) == IF x \in 0..(NumRegs - 1) THEN {v[x]} ELSE 0..(Word8 - 1)
RegWrite(v, x, val) == IF x \in 0..(NumRegs - 1) THEN [v EXCEPT ![x] = val] ELSE v

(* draw: its body is empty *)
draw(d, x, y, n, i) == d

(* INSTRUCTION_LIST under the macro o of decode: an if/else chain over the
   entries, in order; s holds the fields an entry may change.  The result is
   the set of the states the selected entry may produce.  SYS and RND have no
   test and no effect: no word selects them.  The effects name the fields of
   the vm; "nn" in SE/SNE Vx, byte is the byte kk, and "display(x, y, n, I)"
   in DRW is the call of draw.  u, x and y are the masked fields, unshifted,
   as decode computes them. *)
Dispatch(w, s) ==
    LET u == FieldU(w)
        x == FieldX(w)
        y == FieldY(w)
        n == FieldN(w)
        kk == FieldKK(w)
        nnn == FieldNNN(w)
        skip == [s EXCEPT !.PC = (s.PC + 2) % Word16]
    IN  IF u = 0 /\ kk = 224 THEN {[s EXCEPT !.display = reset]}
        ELSE IF u = 0 /\ kk = 238 THEN {s}
        ELSE IF u = 1 THEN {[s EXCEPT !.PC = nnn]}
        ELSE IF u = 2 THEN {s}
        ELSE IF u = 3 THEN {IF a = kk THEN skip ELSE s : a \in RegRead(s.V, x)}
        ELSE IF u = 4 THEN {IF a # kk THEN skip ELSE s : a \in RegRead(s.V, x)}
        ELSE IF u = 5 THEN
            UNION {{IF a = b THEN skip ELSE s : b \in RegRead(s.V, y)} :
                   a \in RegRead(s.V, x)}
        ELSE IF u = 6 THEN {[s EXCEPT !.V = RegWrite(s.V, x, kk)]}
        ELSE IF u = 7 THEN
            {[s EXCEPT !.V = RegWrite(s.V, x, (a + kk) % Word8)] :
             a \in RegRead(s.V, x)}
        ELSE IF u = 8 /\ n = 0 THEN
            {[s EXCEPT !.V = RegWrite(s.V, x, b)] : b \in RegRead(s.V, y)}
        ELSE IF u = 8 /\ n = 1 THEN
            UNION {{[s EXCEPT !.V = RegWrite(s.V, x, Bits("or", a, b, 8))] :
                    b \in RegRead(s.V, y)} : a \in RegRead(s.V, x)}
        ELSE IF u = 8 /\ n = 2 THEN
            UNION {{[s EXCEPT !.V = RegWrite(s.V, x, Bits("and", a, b, 8))] :
                    b \in RegRead(s.V, y)} : a \in RegRead(s.V, x)}
        ELSE IF u = 8 /\ n = 3 THEN
            UNION {{[s EXCEPT !.V = RegWrite(s.V, x, Bits("xor", a, b, 8))] :
                    b \in RegRead(s.V, y)} : a \in RegRead(s.V, x)}
        ELSE IF u = 8 /\ n \in {4, 5, 6, 7, 14} THEN {s}
        ELSE IF u = 9 THEN {s}
        ELSE IF u = 10 THEN {[s EXCEPT !.I = nnn]}
        ELSE IF u = 11 THEN {s}
        ELSE IF u = 13 THEN {[s EXCEPT !.display = draw(s.display, x, y, n, s.I)]}
        ELSE IF u = 14 THEN {s}
        ELSE IF u = 15 /\ kk \in {7, 10, 21, 24} THEN {s}
        ELSE IF u = 15 /\ kk = 30 THEN
            {[s EXCEPT !.V = RegWrite(s.V, x, (a + s.I) % Word8)] :
             a \in RegRead(s.V, x)}
        ELSE IF u = 15 /\ kk \in {41, 51, 85, 101} THEN {s}
        ELSE {s}

----------------------------------------------------------------------------
(* The instruction forms, by the bit patterns of the table's second column *)
Group(w) == w \div 4096
IsCALL(w) == Group(w) = 2
IsRET(w) == w = 238

----------------------------------------------------------------------------
(* main before initVM: vm designates storage nothing has initialized *)
Init ==
    /\ \E b \in JunkRam : ram = [a \in 0..(RamSize - 1) |-> b]
    /\ \E b \in JunkReg : V = [k \in 0..(NumRegs - 1) |-> b]
    /\ I \in JunkI
    /\ PC = 0
    /\ instr = 0
    /\ SP \in JunkSP
    /\ stack = [k \in 0..(StackSize - 1) |-> 0]
    /\ display \in JunkDisplay
    /\ \E t \in JunkTimer : dTimer = t /\ sTimer = t
    /\ pos = "start"
    /\ rom = <<>>
    /\ romOpen = FALSE
    /\ fault = "none"
    /\ cycles = 0
    /\ PC0 = 0
    /\ maxIdx = 0
    /\ pending = NoCall
    /\ atStart = [V |-> V, I |-> I, display |-> display]
    /\ atPrev = [word |-> -1, V |-> V, I |-> I, display |-> display]

(* initVM: PC = 0x200, then loadROM, which copies the file when it opened *)
InitVM ==
    /\ pos = "start"
    /\ \E img \in Images, open \in BOOLEAN, adjacent \in BOOLEAN :
        /\ rom' = img
        /\ romOpen' = open
        /\ ram' = IF open THEN LoadedRam(ram, img) ELSE ram
        /\ V' = IF open /\ adjacent THEN SpilledRegs(V, img) ELSE V
        /\ maxIdx' = IF open THEN Max(maxIdx, LoadTop(img)) ELSE maxIdx
    /\ PC' = RomBase
    /\ pos' = "fetch"
    /\ UNCHANGED <<I, instr, SP, stack, display, dTimer, sTimer, fault, cycles,
                   PC0, pending, atStart, atPrev>>

(* fetch: instr = ram[PC], with PC as it is; PC += 2 *)
Fetch ==
    /\ pos = "fetch"
    /\ cycles < MaxCycles
    /\ IF PC < RamSize THEN instr' = ram[PC] ELSE instr' \in JunkRam
    /\ PC' = (PC + 2) % Word16
    /\ maxIdx' = Max(maxIdx, PC)
    /\ PC0' = PC
    /\ cycles' = cycles + 1
    /\ atStart' = [V |-> V, I |-> I, display |-> display]
    /\ atPrev' = [word |-> IF cycles = 0 THEN -1 ELSE instr, V |-> atStart.V,
                  I |-> atStart.I, display |-> atStart.display]
    /\ pos' = "decode"
    /\ UNCHANGED <<ram, V, I, SP, stack, display, dTimer, sTimer, rom, romOpen,
                   fault, pending>>

(* decode: the word at PC and PC + 1, masked; then the dispatch chain *)
Decode ==
    /\ pos = "decode"
    /\ LET hi == PC % RamSize
           lo == (PC + 1) % RamSize
           w == ram[hi] * Word8 + ram[lo]
       IN /\ instr' = w
          /\ maxIdx' = Max(maxIdx, Max(hi, lo))
          /\ \E t \in Dispatch(w, [PC |-> PC, V |-> V, I |-> I, display |-> display]) :
                /\ PC' = t.PC
                /\ V' = t.V
                /\ I' = t.I
                /\ display' = t.display
          /\ pending' = IF IsCALL(w) THEN [p |-> PC0, s |-> SP]
                        ELSE IF IsRET(w) THEN NoCall
                        ELSE pending
    /\ pos' = "fetch"
    /\ UNCHANGED <<ram, SP, stack, dTimer, sTimer, rom, romOpen, fault, cycles, PC0,
                   atStart, atPrev>>

Next == InitVM \/ Fetch \/ Decode

Spec == Init /\ [][Next]_vars

----------------------------------------------------------------------------
(* The instruction forms of the specification, used to state the claims *)
RegX(w) == (w \div 256) % 16
RegY(w) == (w \div 16) % 16

SetsPC(w) == Group(w) \in {1, 2, 11} \/ IsRET(w)

SkipTaken(w, v) ==
    \/ Group(w) = 3 /\ v[RegX(w)] = FieldKK(w)
    \/ Group(w) = 4 /\ v[RegX(w)] # FieldKK(w)
    \/ Group(w) = 5 /\ FieldN(w) = 0 /\ v[RegX(w)] = v[RegY(w)]
    \/ Group(w) = 9 /\ FieldN(w) = 0 /\ v[RegX(w)] # v[RegY(w)]

KnownForm(w) ==
    \/ Group(w) \in {0, 1, 2, 3, 4, 6, 7, 10, 11, 12, 13}
    \/ Group(w) \in {5, 9} /\ FieldN(w) = 0
    \/ Group(w) = 8 /\ FieldN(w) \in {0, 1, 2, 3, 4, 5, 6, 7, 14}
    \/ Group(w) = 14 /\ FieldKK(w) \in {158, 161}
    \/ Group(w) = 15 /\ FieldKK(w) \in {7, 10, 21, 24, 30, 41, 51, 85, 101}

(* a cycle (fetch, then decode) has just ended; instr is the word it dispatched *)
CycleDone == pos = "fetch" /\ cycles > 0

WordAt(a) == ram[a % RamSize] * Word8 + ram[(a + 1) % RamSize]

----------------------------------------------------------------------------
(* C1: the word a cycle dispatches is the one at the PC the cycle started
   with, (ram[PC0] << 8) | ram[PC0 + 1], not the one two bytes further on. *)
C1_DispatchedWordIsAtPC0 == CycleDone => instr = WordAt(PC0)

(* C2: a cycle whose instruction is no jump, call or return leaves PC at
   PC0 + 2, and at PC0 + 4 when it is a conditional skip whose condition
   holds (the key skips of group E are left out: the source has no keys). *)
C2_PCAdvance ==
    (CycleDone /\ ~SetsPC(instr) /\ Group(instr) # 14)
        => PC = (PC0 + 2 + (IF SkipTaken(instr, V) THEN 2 ELSE 0)) % Word16

(* C3: with the image CLS; LD V0,5; LD I,0x234 loaded at 0x200, after three
   cycles PC = 0x206, V0 = 5, I = 0x234 and every pixel is off. *)
C3_Scenario ==
    (romOpen /\ rom = ImgScenario /\ cycles = 3 /\ pos = "fetch")
        => PC = 518 /\ V[0] = 5 /\ I = 564 /\ display = {}

(* C4: a cycle whose word matches no instruction form ends in an
   UnknownInstruction error surfaced to the host. *)
C4_UnknownSurfaced ==
    (CycleDone /\ ~KnownForm(instr)) => fault = "UnknownInstruction"

(* C5: a RET that follows a CALL executed at p with stack pointer s (no other
   CALL or RET in between) leaves PC = p + 2 and the stack pointer at s. *)
C5_CallRet ==
    [][(pos = "decode" /\ pending # NoCall /\ IsRET(WordAt(PC)))
         => (PC' = (pending.p + 2) % Word16 /\ SP' = pending.s)]_vars

(* C6: the stack pointer never exceeds 16, and a CALL executed with the
   stack pointer at 16 ends in a StackOverflow error. *)
C6_StackBound ==
    /\ pos # "start" => SP <= StackSize
    /\ (CycleDone /\ IsCALL(instr) /\ SP = StackSize) => fault = "StackOverflow"

(* C7: a RET executed with the stack pointer at 0 ends in a StackUnderflow
   error. *)
C7_Underflow ==
    (CycleDone /\ IsRET(instr) /\ SP = 0) => fault = "StackUnderflow"

(* C8: every index used to access ram lies in 0..4095. *)
C8_RamIndexInRange == maxIdx <= RamSize - 1

(* C9: loading an image longer than 4096 - 0x200 bytes fails with
   ImageTooLarge, writes nothing outside ram and starts no cycle; a shorter
   image is copied verbatim to 0x200 onwards. *)
C9_LoadImage ==
    (pos # "start" /\ romOpen) =>
        IF Len(rom) > RamSize - RomBase
        THEN fault = "ImageTooLarge" /\ maxIdx <= RamSize - 1 /\ cycles = 0
        ELSE cycles = 0 =>
                \A i \in 1..Len(rom) : ram[RomBase + i - 1] = rom[i]

(* C10: after initialization and before the first cycle PC = 0x200, the
   stack pointer and both timers are 0, every pixel is off and the 80 glyph
   bytes lie in memory below 0x200. *)
C10_InitialState ==
    (pos = "fetch" /\ cycles = 0) =>
        /\ PC = RomBase
        /\ SP = 0
        /\ dTimer = 0
        /\ sTimer = 0
        /\ display = {}
        /\ \E base \in 0..(RomBase - FontLen) :
              \A i \in 1..FontLen : ram[base + i - 1] = fontset[i]

----------------------------------------------------------------------------
(* Further instruction forms of the specification *)
IsCLS(w) == w = 224
IsLDDT(w) == Group(w) = 15 /\ FieldKK(w) = 21
IsLDST(w) == Group(w) = 15 /\ FieldKK(w) = 24

(* C11: LD DT,Vx and LD ST,Vx set the timer to Vx, from where the ticks
   count it down to 0 (the source has no tick: instruction cycles are all
   that could change a timer). *)
C11_TimerSet ==
    /\ (CycleDone /\ IsLDDT(instr)) => dTimer = V[RegX(instr)]
    /\ (CycleDone /\ IsLDST(instr)) => sTimer = V[RegX(instr)]

(* C12: the cycle that dispatches CLS (0x00E0) leaves every pixel off and
   changes no register, timer, stack entry or memory byte: neither its fetch
   nor its decode. *)
C12_Cls ==
    [][/\ (pos = "fetch" /\ IsCLS(WordAt(PC + 2)))
            => UNCHANGED <<V, I, SP, stack, dTimer, sTimer, ram, display>>
       /\ (pos = "decode" /\ IsCLS(WordAt(PC)))
            => (display' = {} /\ UNCHANGED <<V, I, SP, stack, dTimer, sTimer, ram>>)]_vars

(* C12's case: a cycle dispatched CLS on a display that had pixels on *)
C12_Witness ==
    CycleDone /\ IsCLS(instr) /\ atStart.display # {} /\ display = {}

----------------------------------------------------------------------------
IsADDXY(w) == Group(w) = 8 /\ FieldN(w) = 4
IsSUBXY(w) == Group(w) = 8 /\ FieldN(w) = 5
IsDRW(w) == Group(w) = 13
IsSTORE(w) == Group(w) = 15 /\ FieldKK(w) = 85
IsLOAD(w) == Group(w) = 15 /\ FieldKK(w) = 101
FlagReg == 15

(* C13: ADD Vx,Vy leaves VF = 1 exactly when the original Vx + Vy exceeds
   255 (0 otherwise) and, for x # F, Vx = (Vx + Vy) mod 256. *)
C13_AddCarry ==
    (CycleDone /\ IsADDXY(instr)) =>
        LET x == RegX(instr)
            sum == atStart.V[x] + atStart.V[RegY(instr)]
        IN /\ V[FlagReg] = (IF sum > Word8 - 1 THEN 1 ELSE 0)
           /\ x # FlagReg => V[x] = sum % Word8

(* C14: SUB Vx,Vy leaves VF = 1 if the original Vx >= Vy and 0 otherwise,
   and (for x # F) Vx = (Vx - Vy) mod 256. *)
C14_SubBorrow ==
    (CycleDone /\ IsSUBXY(instr)) =>
        LET x == RegX(instr)
            a == atStart.V[x]
            b == atStart.V[RegY(instr)]
        IN /\ V[FlagReg] = (IF a >= b THEN 1 ELSE 0)
           /\ x # FlagReg => V[x] = (a - b) % Word8

(* C15: a DRW that repeats the DRW of the cycle before, with I, Vx and Vy
   unchanged, restores the display to what it was before the first of the
   two; and each DRW leaves VF = 1 if a pixel went from on to off during it
   and 0 otherwise. *)
C15_DrawTwice ==
    (CycleDone /\ IsDRW(instr)) =>
        LET x == RegX(instr)
            y == RegY(instr)
        IN /\ (/\ atPrev.word = instr
               /\ atPrev.I = atStart.I
               /\ atPrev.V[x] = atStart.V[x]
               /\ atPrev.V[y] = atStart.V[y]) => display = atPrev.display
           /\ V[FlagReg] = (IF atStart.display \ display # {} THEN 1 ELSE 0)

(* C16: LD Vx,[I] right after LD [I],Vx with the same x leaves V0..Vx as
   they were before the store, and they are the bytes the store wrote at
   I..I+x. *)
C16_StoreLoad ==
    (CycleDone /\ IsLOAD(instr) /\ IsSTORE(atPrev.word)
        /\ RegX(atPrev.word) = RegX(instr)) =>
        \A k \in 0..RegX(instr) :
            /\ V[k] = atPrev.V[k]
            /\ ram[(atPrev.I + k) % RamSize] = atPrev.V[k]

----------------------------------------------------------------------------
IsJP(w) == Group(w) = 1
IsLDByte(w) == Group(w) = 6
IsLDK(w) == Group(w) = 15 /\ FieldKK(w) = 10
IsADDI(w) == Group(w) = 15 /\ FieldKK(w) = 30

(* C17: the decoded x and y are the shifted nibbles (word & 0x0F00) >> 8
   and (word & 0x00F0) >> 4, so they index the 16 registers. *)
C17_Fields ==
    CycleDone =>
        /\ FieldX(instr) = RegX(instr)
        /\ FieldY(instr) = RegY(instr)
        /\ FieldX(instr) \in 0..(NumRegs - 1)
        /\ FieldY(instr) \in 0..(NumRegs - 1)

(* C18: the form a word selects is the one applied: 0x1nnn leaves PC = nnn,
   0x6xkk leaves Vx = kk, 0x00E0 leaves every pixel off (the key skips of
   group E are left out: the source has no keys). *)
C18_Forms ==
    CycleDone =>
        /\ IsJP(instr) => PC = FieldNNN(instr)
        /\ IsLDByte(instr) => V[RegX(instr)] = FieldKK(instr)
        /\ IsCLS(instr) => display = {}

(* C19: once LD Vx,K has been executed and no key press is reported (the
   source reports none), no instruction is dispatched and PC stays. *)
C19_AwaitKey ==
    [][(CycleDone /\ IsLDK(instr)) => (PC' = PC /\ cycles' = cycles)]_vars

(* C20: ADD I,Vx leaves I = I + Vx and every register V0..VF as it was. *)
C20_AddI ==
    (CycleDone /\ IsADDI(instr)) =>
        /\ I = (atStart.I + atStart.V[RegX(instr)]) % Word16
        /\ V = atStart.V

====
